---- MODULE Spec2Model ----
(***************************************************************************)
(* The acknowledgement pipeline of the streaming-pull subscriber:          *)
(*   - Message (subscriber/message.py): ack / nack / drop /                *)
(*     modify_ack_deadline put one request item on the shared queue;       *)
(*   - Dispatcher (subscriber/_protocol/dispatcher.py): start / stop of    *)
(*     the worker thread, dispatch_callback and the per-kind handlers.     *)
(* helper_threads.QueueCallbackWorker and the requests tuples are not part *)
(* of the sources at hand; they are modelled from the specification text.  *)
(***************************************************************************)
EXTENDS Integers, Sequences, FiniteSets, TLC

VARIABLES
    queue,      \* the shared request queue (Message._request_queue, Dispatcher._queue)
    thread,     \* Dispatcher._thread: NoThread or the id of the worker thread
    lock,       \* Dispatcher._operational_lock: NoOwner or the caller holding it
    pc,         \* where each caller of start()/stop() stands
    spawned,    \* the local variable "thread" of each caller's start()
    outcome,    \* ghost: how each caller's start() calls ended since the dispatcher was last idle
    wstate,     \* each worker thread: "unborn", "waiting", "dispatching", "dead"
    batch,      \* the items each worker collected for its current callback
    continue_,  \* each worker's loop flag, cleared once the poison pill was dequeued
    calls,      \* the collaborator calls of the handler invocation under observation
    input,      \* the items handed to the handler invoked directly
    ran,        \* which handler was invoked directly on input ("none" before)
    now,        \* time.time(), in ticks of 1/TicksPerSecond second
    received,   \* Message._received_timestamp per handle, None before its construction
    trace       \* ghost: what was enqueued, collected and dispatched so far, where recorded

vars == <<queue, thread, lock, pc, spawned, outcome, wstate, batch, continue_,
          calls, input, ran, now, received, trace>>

(***************************************************************************)
(* Bounds of the model.                                                    *)
(***************************************************************************)
\* stands for _ACK_IDS_BATCH_SIZE (2500 in the source): ids per request
ACK_IDS_BATCH_SIZE == 2
\* stands for _MAX_BATCH_SIZE (100 in the source): entries per worker cycle
MAX_BATCH_SIZE == 2
\* longest list of one kind handed to a handler directly
MaxItems == 5
\* longest mixed batch handed to dispatch_callback directly
MaxMixed == 3
\* message operations are held back when the queue holds this many entries
MaxQueue == 2
\* the same, in the runs with the worker and the callers of start() and stop()
MaxPending == 1
\* worker threads that start() may create in one run
MaxStarts == 2
\* the clock stops advancing at this many ticks
MaxTime == 4
\* clock ticks per second
TicksPerSecond == 2

(***************************************************************************)
(* Values.                                                                 *)
(***************************************************************************)
\* Optional[int]: None is the empty tuple, a value v is <<v>>
None == <<>>
Some(v) == <<v>>

\* the delivered messages: ack_id, ByteSize() and ordering_key of each
Handles ==
    { [ack_id |-> "a", size |-> 10, ordering_key |-> ""],
      [ack_id |-> "b", size |-> 20, ordering_key |-> "k"] }

\* seconds a caller passes to Message.modify_ack_deadline
SecondsArgs == {0, 10}

min(a, b) == IF a <= b THEN a ELSE b

(***************************************************************************)
(* requests.py: the five request tuples, field order as declared.          *)
(***************************************************************************)
AckRequest(ack_id, byte_size, time_to_ack, ordering_key) ==
    [kind |-> "AckRequest", ack_id |-> ack_id, byte_size |-> byte_size,
     time_to_ack |-> time_to_ack, ordering_key |-> ordering_key]

DropRequest(ack_id, byte_size, ordering_key) ==
    [kind |-> "DropRequest", ack_id |-> ack_id, byte_size |-> byte_size,
     ordering_key |-> ordering_key]

LeaseRequest(ack_id, byte_size, ordering_key) ==
    [kind |-> "LeaseRequest", ack_id |-> ack_id, byte_size |-> byte_size,
     ordering_key |-> ordering_key]

ModAckRequest(ack_id, seconds) ==
    [kind |-> "ModAckRequest", ack_id |-> ack_id, seconds |-> seconds]

NackRequest(ack_id, byte_size, ordering_key) ==
    [kind |-> "NackRequest", ack_id |-> ack_id, byte_size |-> byte_size,
     ordering_key |-> ordering_key]

\* helper_threads.STOP, the poison pill
STOP == [kind |-> "STOP"]

\* an object that is none of the five request types
UnknownItem == [kind |-> "Unknown"]

\* a NackRequest unpacked positionally: *item
Unpack3(item) == <<item.ack_id, item.byte_size, item.ordering_key>>

(***************************************************************************)
(* Collaborator calls, as the fakes of a test would record them.           *)
(***************************************************************************)
Call(op, items, ack_ids, seconds, keys) ==
    [op |-> op, items |-> items, ack_ids |-> ack_ids,
     seconds |-> seconds, keys |-> keys]

LeaserAdd(items)    == Call("leaser.add", items, <<>>, <<>>, <<>>)
LeaserRemove(items) == Call("leaser.remove", items, <<>>, <<>>, <<>>)
HistogramAdd(v)     == Call("ack_histogram.add", <<>>, <<>>, <<v>>, <<>>)
SendAck(ids)        == Call("send.ack", <<>>, ids, <<>>, <<>>)
SendModAck(ids, secs) == Call("send.modack", <<>>, ids, secs, <<>>)
ActivateOrderingKeys(keys) == Call("activate_ordering_keys", <<>>, <<>>, <<>>, keys)
MaybePauseConsumer  == Call("maybe_pause_consumer", <<>>, <<>>, <<>>, <<>>)
MaybeResumeConsumer == Call("maybe_resume_consumer", <<>>, <<>>, <<>>, <<>>)

\* dispatch_callback invoking one of its handlers on a bucket (self.lease(...), ...)
HandlerEntry(name, items) == Call(name, items, <<>>, <<>>, <<>>)

\* warnings.warn("Skipping unknown request item of type ...", RuntimeWarning)
Warn == Call("warnings.warn", <<>>, <<>>, <<>>, <<>>)

(***************************************************************************)
(* Sequence helpers: comprehensions, generators and itertools.islice.      *)
(***************************************************************************)
\* [f(x) for x in s]
Map(s, F(_)) == [i \in 1..Len(s) |-> F(s[i])]

\* [x for x in s if P(x)]
Filter(s, P(_)) == SelectSeq(s, P)

\* itertools.islice(it, n): the next n elements of the iterator (fewer at its end)
islice(it, n) == SubSeq(it, 1, min(n, Len(it)))

\* the iterator after islice(it, n) consumed its elements
consumed_not_advanced(it, n) == it
consumed(it, n) == SubSeq(it, min(n, Len(it)) + 1, Len(it))

\* math.ceil(a / b) for an integer a and b > 0
ceil_truncating(a, b) == a \div b
ceil(a, b) == IF a % b = 0 THEN a \div b ELSE (a \div b) + 1

(***************************************************************************)
(* Dispatcher: the per-kind handlers, each as the calls it makes in order. *)
(***************************************************************************)
\* Dispatcher.drop, without the "if k.ordering_key" filter of its generator
drop_all_keys(items) ==
    << LeaserRemove(items),
       ActivateOrderingKeys(Map(items, LAMBDA k : k.ordering_key)),
       MaybeResumeConsumer >>

\* Dispatcher.drop; the ordering keys are handed over as a generator, which
\* yields one key per item that has one
drop(items) ==
    << LeaserRemove(items),
       ActivateOrderingKeys(
           Map(Filter(items, LAMBDA k : k.ordering_key # ""),
               LAMBDA k : k.ordering_key)),
       MaybeResumeConsumer >>

\* Dispatcher.lease, with the pause check made before the items are added
lease_pause_first(items) == << MaybePauseConsumer, LeaserAdd(items) >>

\* Dispatcher.lease
lease(items) == << LeaserAdd(items), MaybePauseConsumer >>

\* the chunk loop of Dispatcher.ack: one request per pass, ids from the generator
RECURSIVE ack_chunks(_, _)
ack_chunks(total_chunks, ack_ids) ==
    IF total_chunks = 0 THEN <<>>
    ELSE <<SendAck(islice(ack_ids, ACK_IDS_BATCH_SIZE))>>
         \o ack_chunks(total_chunks - 1, consumed(ack_ids, ACK_IDS_BATCH_SIZE))

\* Dispatcher.ack, with the items dropped before their acks are sent
ack_drop_before_send(items) ==
    Map(Filter(items, LAMBDA item : item.time_to_ack # None),
        LAMBDA item : HistogramAdd(item.time_to_ack[1]))
    \o drop(items)
    \o ack_chunks(ceil(Len(items), ACK_IDS_BATCH_SIZE),
                  Map(items, LAMBDA item : item.ack_id))

\* Dispatcher.ack
ack(items) ==
    Map(Filter(items, LAMBDA item : item.time_to_ack # None),
        LAMBDA item : HistogramAdd(item.time_to_ack[1]))
    \o ack_chunks(ceil(Len(items), ACK_IDS_BATCH_SIZE),
                  Map(items, LAMBDA item : item.ack_id))
    \o drop(items)

\* the chunk loop of Dispatcher.modify_ack_deadline: two generators, sliced alike
RECURSIVE modack_chunks(_, _, _)
modack_chunks(total_chunks, ack_ids, seconds) ==
    IF total_chunks = 0 THEN <<>>
    ELSE <<SendModAck(islice(ack_ids, ACK_IDS_BATCH_SIZE),
                      islice(seconds, ACK_IDS_BATCH_SIZE))>>
         \o modack_chunks(total_chunks - 1,
                          consumed(ack_ids, ACK_IDS_BATCH_SIZE),
                          consumed(seconds, ACK_IDS_BATCH_SIZE))

\* Dispatcher.modify_ack_deadline
modify_ack_deadline(items) ==
    modack_chunks(ceil(Len(items), ACK_IDS_BATCH_SIZE),
                  Map(items, LAMBDA item : item.ack_id),
                  Map(items, LAMBDA item : item.seconds))

\* Dispatcher.nack, with the drop done before the deadline is sent
nack_drop_first(items) ==
    drop(Map(items, LAMBDA item :
               DropRequest(Unpack3(item)[1], Unpack3(item)[2], Unpack3(item)[3])))
    \o modify_ack_deadline(Map(items, LAMBDA item : ModAckRequest(item.ack_id, 0)))

\* Dispatcher.nack
nack(items) ==
    modify_ack_deadline(Map(items, LAMBDA item : ModAckRequest(item.ack_id, 0)))
    \o drop(Map(items, LAMBDA item :
                  DropRequest(Unpack3(item)[1], Unpack3(item)[2], Unpack3(item)[3])))

\* the five request types the isinstance chain of dispatch_callback tests for
RequestKinds ==
    {"LeaseRequest", "ModAckRequest", "AckRequest", "NackRequest", "DropRequest"}

\* the else branch of the isinstance chain: one warning per item of no known type
Skipped(items) ==
    Map(Filter(items, LAMBDA item : item.kind \notin RequestKinds), LAMBDA item : Warn)

\* the isinstance chain, with the classification loop left at the first unknown item
Bucket_until_unknown(items, kind) ==
    LET known == { i \in 0..Len(items) :
                     \A j \in 1..i : items[j].kind \in RequestKinds }
        last == CHOOSE i \in known : \A j \in known : j <= i
    IN  Filter(SubSeq(items, 1, last), LAMBDA item : item.kind = kind)

\* the isinstance chain, with every bucket filled newest item first
Bucket_newest_first(items, kind) ==
    LET bucket == Filter(items, LAMBDA item : item.kind = kind)
    IN  [i \in 1..Len(bucket) |-> bucket[Len(bucket) + 1 - i]]

\* the isinstance chain of dispatch_callback: one bucket per kind, input order kept
Bucket(items, kind) == Filter(items, LAMBDA item : item.kind = kind)

\* the handler invoked whether or not its bucket holds anything
Invoke_unguarded(name, bucket, handler_calls) ==
    <<HandlerEntry(name, bucket)>> \o handler_calls

\* "if bucket: self.handler(bucket)"
Invoke(name, bucket, handler_calls) ==
    IF bucket # <<>> THEN <<HandlerEntry(name, bucket)>> \o handler_calls ELSE <<>>

\* Dispatcher.dispatch_callback, with the ack and drop buckets handled before lease
dispatch_callback_lease_last(items) ==
    LET lease_requests  == Bucket(items, "LeaseRequest")
        modack_requests == Bucket(items, "ModAckRequest")
        ack_requests    == Bucket(items, "AckRequest")
        nack_requests   == Bucket(items, "NackRequest")
        drop_requests   == Bucket(items, "DropRequest")
    IN  Skipped(items)
        \o Invoke("Dispatcher.modify_ack_deadline", modack_requests,
                  modify_ack_deadline(modack_requests))
        \o Invoke("Dispatcher.ack", ack_requests, ack(ack_requests))
        \o Invoke("Dispatcher.nack", nack_requests, nack(nack_requests))
        \o Invoke("Dispatcher.drop", drop_requests, drop(drop_requests))
        \o Invoke("Dispatcher.lease", lease_requests, lease(lease_requests))

\* Dispatcher.dispatch_callback, with the drop bucket handled first
dispatch_callback_drop_first(items) ==
    LET lease_requests  == Bucket(items, "LeaseRequest")
        modack_requests == Bucket(items, "ModAckRequest")
        ack_requests    == Bucket(items, "AckRequest")
        nack_requests   == Bucket(items, "NackRequest")
        drop_requests   == Bucket(items, "DropRequest")
    IN  Skipped(items)
        \o Invoke("Dispatcher.drop", drop_requests, drop(drop_requests))
        \o Invoke("Dispatcher.lease", lease_requests, lease(lease_requests))
        \o Invoke("Dispatcher.modify_ack_deadline", modack_requests,
                  modify_ack_deadline(modack_requests))
        \o Invoke("Dispatcher.ack", ack_requests, ack(ack_requests))
        \o Invoke("Dispatcher.nack", nack_requests, nack(nack_requests))

\* Dispatcher.dispatch_callback: the classification loop, its warnings raised as
\* it meets the items, then the handlers of the non-empty buckets
dispatch_callback(items) ==
    LET lease_requests  == Bucket(items, "LeaseRequest")
        modack_requests == Bucket(items, "ModAckRequest")
        ack_requests    == Bucket(items, "AckRequest")
        nack_requests   == Bucket(items, "NackRequest")
        drop_requests   == Bucket(items, "DropRequest")
    IN  Skipped(items)
        \o Invoke("Dispatcher.lease", lease_requests, lease(lease_requests))
        \o Invoke("Dispatcher.modify_ack_deadline", modack_requests,
                  modify_ack_deadline(modack_requests))
        \o Invoke("Dispatcher.ack", ack_requests, ack(ack_requests))
        \o Invoke("Dispatcher.nack", nack_requests, nack(nack_requests))
        \o Invoke("Dispatcher.drop", drop_requests, drop(drop_requests))

(***************************************************************************)
(* The request items a run can hold.                                       *)
(***************************************************************************)
\* time_to_ack of an AckRequest handed to a handler directly
TimeToAckArgs == {None, Some(3)}

AckItems ==
    { AckRequest(h.ack_id, h.size, t, h.ordering_key) : h \in Handles, t \in TimeToAckArgs }
ModAckItems == { ModAckRequest(h.ack_id, s) : h \in Handles, s \in SecondsArgs }
NackItems  == { NackRequest(h.ack_id, h.size, h.ordering_key) : h \in Handles }
DropItems  == { DropRequest(h.ack_id, h.size, h.ordering_key) : h \in Handles }
LeaseItems == { LeaseRequest(h.ack_id, h.size, h.ordering_key) : h \in Handles }
AllItems ==
    AckItems \cup ModAckItems \cup NackItems \cup DropItems \cup LeaseItems
    \cup {UnknownItem}

\* the sequences over S of length at most n
BoundedSeq(S, n) == UNION { [1..k -> S] : k \in 0..n }

\* the ids Dispatcher._thread and the lock owner take when unset
NoThread == 0
NoOwner == "none"

Callers == {"t1", "t2"}
WorkerIds == 1..MaxStarts

\* the history of a run: the items put by producers, the entries of each
\* collection cycle of a worker, the batch of each callback, the calls made
NoTrace == [on |-> FALSE, enqueued |-> <<>>, taken |-> <<>>, batches |-> <<>>,
            log |-> <<>>]
EmptyTrace == [NoTrace EXCEPT !.on = TRUE]

(***************************************************************************)
(* State after construction: Dispatcher.__init__, an empty queue, no       *)
(* message delivered yet.                                                  *)
(***************************************************************************)
DispatcherConstructed ==
    /\ queue = <<>>
    /\ thread = NoThread
    /\ lock = NoOwner
    /\ pc = [t \in Callers |-> "idle"]
    /\ spawned = [t \in Callers |-> NoThread]
    /\ outcome = [t \in Callers |-> {}]
    /\ wstate = [w \in WorkerIds |-> "unborn"]
    /\ batch = [w \in WorkerIds |-> <<>>]
    /\ continue_ = [w \in WorkerIds |-> TRUE]
    /\ calls = <<>>
    /\ ran = "none"
    /\ now = 0

Constructed ==
    /\ DispatcherConstructed
    /\ received = [h \in Handles |-> None]

(***************************************************************************)
(* The handlers invoked directly on a list of items, as a unit test does.  *)
(***************************************************************************)
AllOfKind(items, kind) == \A i \in 1..Len(items) : items[i].kind = kind

InitDispatch ==
    /\ Constructed
    /\ trace = NoTrace
    /\ input \in BoundedSeq(AllItems, MaxMixed)
                 \cup BoundedSeq(AckItems, MaxItems)
                 \cup BoundedSeq(ModAckItems, MaxItems)
                 \cup BoundedSeq(NackItems, MaxItems)
                 \cup BoundedSeq(DropItems, MaxItems)
                 \cup BoundedSeq(LeaseItems, MaxItems)

Observe(name, handler_calls) ==
    /\ ran = "none"
    /\ ran' = name
    /\ calls' = handler_calls
    /\ UNCHANGED <<queue, thread, lock, pc, spawned, outcome, wstate, batch,
                   continue_, input, now, received, trace>>

CallDispatchCallback == Observe("dispatch_callback", dispatch_callback(input))
CallLease == AllOfKind(input, "LeaseRequest") /\ Observe("lease", lease(input))
CallModAck ==
    AllOfKind(input, "ModAckRequest")
    /\ Observe("modify_ack_deadline", modify_ack_deadline(input))
CallAck  == AllOfKind(input, "AckRequest") /\ Observe("ack", ack(input))
CallNack == AllOfKind(input, "NackRequest") /\ Observe("nack", nack(input))
CallDrop ==
    (\A i \in 1..Len(input) : input[i].kind \in {"AckRequest", "NackRequest", "DropRequest"})
    /\ Observe("drop", drop(input))

NextDispatch ==
    \/ CallDispatchCallback
    \/ CallLease
    \/ CallModAck
    \/ CallAck
    \/ CallNack
    \/ CallDrop

SpecDispatch == InitDispatch /\ [][NextDispatch]_vars

(***************************************************************************)
(* Message: the handle of one delivered message (message.py).              *)
(***************************************************************************)
\* a put that leaves the item on the queue twice
put_twice(item) ==
    /\ queue' = Append(Append(queue, item), item)
    /\ trace' = IF trace.on THEN [trace EXCEPT !.enqueued = Append(@, item)] ELSE trace

\* queue.put(item) on the unbounded queue
put(item) ==
    /\ queue' = Append(queue, item)
    /\ trace' = IF trace.on THEN [trace EXCEPT !.enqueued = Append(@, item)] ELSE trace

\* Message.__init__: the handle records the time it was received
Message_init(h) ==
    /\ received[h] = None
    /\ received' = [received EXCEPT ![h] = Some(now)]
    /\ UNCHANGED <<queue, thread, lock, pc, spawned, outcome, wstate, batch,
                   continue_, calls, input, ran, now, trace>>

\* what every Message operation leaves alone
MessageFrame ==
    UNCHANGED <<thread, lock, pc, spawned, outcome, wstate, batch, continue_,
                calls, input, ran, now, received>>

\* Message.ack with the elapsed time truncated instead of rounded up
Message_ack_truncating(h) ==
    /\ received[h] # None
    /\ LET time_to_ack == (now - received[h][1]) \div TicksPerSecond
       IN  put(AckRequest(h.ack_id, h.size, Some(time_to_ack), h.ordering_key))
    /\ MessageFrame

\* Message.ack
Message_ack(h) ==
    /\ received[h] # None
    /\ LET time_to_ack == ceil(now - received[h][1], TicksPerSecond)
       IN  put(AckRequest(h.ack_id, h.size, Some(time_to_ack), h.ordering_key))
    /\ MessageFrame

\* Message.drop
Message_drop(h) ==
    /\ received[h] # None
    /\ put(DropRequest(h.ack_id, h.size, h.ordering_key))
    /\ MessageFrame

\* Message.modify_ack_deadline
Message_modify_ack_deadline(h, seconds) ==
    /\ received[h] # None
    /\ put(ModAckRequest(h.ack_id, seconds))
    /\ MessageFrame

\* Message.nack refusing a message that already has a request queued
Message_nack_guarded(h) ==
    /\ received[h] # None
    /\ \A i \in 1..Len(queue) : queue[i].ack_id # h.ack_id
    /\ put(NackRequest(h.ack_id, h.size, h.ordering_key))
    /\ MessageFrame

\* Message.nack
Message_nack(h) ==
    /\ received[h] # None
    /\ put(NackRequest(h.ack_id, h.size, h.ordering_key))
    /\ MessageFrame

(***************************************************************************)
(* Dispatcher.start and Dispatcher.stop, step by step under the lock.      *)
(***************************************************************************)
Alive(w) == wstate[w] \in {"waiting", "dispatching"}

\* what start() and stop() leave alone
LifecycleFrame ==
    UNCHANGED <<batch, continue_, calls, input, ran, now, received, trace>>

\* start() entering "with self._operational_lock" without taking the lock
start_acquire_unlocked(t) ==
    /\ pc[t] = "idle"
    /\ \E w \in WorkerIds : wstate[w] = "unborn"
    /\ pc' = [pc EXCEPT ![t] = "start_locked"]
    /\ UNCHANGED <<queue, thread, lock, spawned, outcome, wstate>>
    /\ LifecycleFrame

\* start(): with self._operational_lock
start_acquire(t) ==
    /\ pc[t] = "idle"
    /\ lock = NoOwner
    /\ \E w \in WorkerIds : wstate[w] = "unborn"
    /\ lock' = t
    /\ pc' = [pc EXCEPT ![t] = "start_locked"]
    /\ UNCHANGED <<queue, thread, spawned, outcome, wstate>>
    /\ LifecycleFrame

\* the worker thread created and started by start()
start_spawn(t) ==
    LET w == CHOOSE v \in WorkerIds :
                 wstate[v] = "unborn" /\ \A u \in WorkerIds : wstate[u] = "unborn" => v <= u
    IN  /\ wstate' = [wstate EXCEPT ![w] = "waiting"]
        /\ spawned' = [spawned EXCEPT ![t] = w]
        /\ pc' = [pc EXCEPT ![t] = "start_spawned"]
        /\ UNCHANGED <<queue, thread, lock, outcome>>

\* start() without the "already running" check
start_check_unguarded(t) ==
    /\ pc[t] = "start_locked"
    /\ \E w \in WorkerIds : wstate[w] = "unborn"
    /\ start_spawn(t)
    /\ LifecycleFrame

\* start(): raise if self._thread is set, else create and start the worker
start_check(t) ==
    /\ pc[t] = "start_locked"
    /\ IF thread # NoThread
       THEN /\ outcome' = [outcome EXCEPT ![t] = @ \cup {"ValueError"}]
            /\ lock' = NoOwner
            /\ pc' = [pc EXCEPT ![t] = "idle"]
            /\ UNCHANGED <<queue, thread, spawned, wstate>>
       ELSE /\ \E w \in WorkerIds : wstate[w] = "unborn"
            /\ start_spawn(t)
    /\ LifecycleFrame

\* start(): self._thread = thread, and the lock is released
start_assign(t) ==
    /\ pc[t] = "start_spawned"
    /\ thread' = spawned[t]
    /\ outcome' = [outcome EXCEPT ![t] = @ \cup {"started"}]
    /\ lock' = NoOwner
    /\ pc' = [pc EXCEPT ![t] = "idle"]
    /\ UNCHANGED <<queue, spawned, wstate>>
    /\ LifecycleFrame

\* stop(): with self._operational_lock
stop_acquire(t) ==
    /\ pc[t] = "idle"
    /\ lock = NoOwner
    /\ lock' = t
    /\ pc' = [pc EXCEPT ![t] = "stop_locked"]
    /\ UNCHANGED <<queue, thread, spawned, outcome, wstate>>
    /\ LifecycleFrame

\* stop() putting the poison pill whether or not a worker runs
stop_signal_unconditional(t) ==
    /\ pc[t] = "stop_locked"
    /\ queue' = Append(queue, STOP)
    /\ IF thread # NoThread
       THEN /\ pc' = [pc EXCEPT ![t] = "stop_join"]
            /\ UNCHANGED <<thread, lock>>
       ELSE /\ thread' = NoThread
            /\ lock' = NoOwner
            /\ pc' = [pc EXCEPT ![t] = "idle"]
    /\ UNCHANGED <<spawned, outcome, wstate>>
    /\ LifecycleFrame

\* stop() putting the poison pill only for a worker thread that is still alive
stop_signal_if_alive(t) ==
    /\ pc[t] = "stop_locked"
    /\ IF thread # NoThread
       THEN /\ queue' = IF Alive(thread) THEN Append(queue, STOP) ELSE queue
            /\ pc' = [pc EXCEPT ![t] = "stop_join"]
            /\ UNCHANGED <<thread, lock>>
       ELSE /\ thread' = NoThread
            /\ lock' = NoOwner
            /\ pc' = [pc EXCEPT ![t] = "idle"]
            /\ UNCHANGED queue
    /\ UNCHANGED <<spawned, outcome, wstate>>
    /\ LifecycleFrame

\* stop(): put the poison pill if a worker runs, else clear the handle and return
stop_signal(t) ==
    /\ pc[t] = "stop_locked"
    /\ IF thread # NoThread
       THEN /\ queue' = Append(queue, STOP)
            /\ pc' = [pc EXCEPT ![t] = "stop_join"]
            /\ UNCHANGED <<thread, lock>>
       ELSE /\ thread' = NoThread
            /\ lock' = NoOwner
            /\ pc' = [pc EXCEPT ![t] = "idle"]
            /\ UNCHANGED queue
    /\ UNCHANGED <<spawned, outcome, wstate>>
    /\ LifecycleFrame

\* stop() returning without waiting for the worker
stop_join_no_wait(t) ==
    /\ pc[t] = "stop_join"
    /\ thread' = NoThread
    /\ outcome' = [u \in Callers |-> {}]
    /\ lock' = NoOwner
    /\ pc' = [pc EXCEPT ![t] = "idle"]
    /\ UNCHANGED <<queue, spawned, wstate>>
    /\ LifecycleFrame

\* stop(): self._thread.join() returns, self._thread = None, the lock is released
stop_join(t) ==
    /\ pc[t] = "stop_join"
    /\ thread # NoThread
    /\ ~Alive(thread)
    /\ thread' = NoThread
    /\ outcome' = [u \in Callers |-> {}]
    /\ lock' = NoOwner
    /\ pc' = [pc EXCEPT ![t] = "idle"]
    /\ UNCHANGED <<queue, spawned, wstate>>
    /\ LifecycleFrame

(***************************************************************************)
(* helper_threads.QueueCallbackWorker bound to dispatch_callback.          *)
(***************************************************************************)
\* the entries of s ahead of the first poison pill
BeforeStop(s) ==
    IF \E i \in 1..Len(s) : s[i] = STOP
    THEN SubSeq(s, 1, (CHOOSE i \in 1..Len(s) :
                          s[i] = STOP /\ \A j \in 1..(i - 1) : s[j] # STOP) - 1)
    ELSE s

\* what the worker leaves alone
WorkerFrame == UNCHANGED <<thread, lock, pc, spawned, outcome, input, ran, now, received>>

\* a collection cycle that ends the worker as soon as it meets the poison
\* pill, without the callback on what was collected ahead of it
worker_get_exit_on_pill(w) ==
    /\ wstate[w] = "waiting"
    /\ queue # <<>>
    /\ \E n \in 1..min(MAX_BATCH_SIZE, Len(queue)) :
          LET entries == SubSeq(queue, 1, n)
              pill == BeforeStop(entries) # entries
          IN  /\ queue' = SubSeq(queue, n + 1, Len(queue))
              /\ batch' = [batch EXCEPT ![w] = IF pill THEN <<>> ELSE entries]
              /\ continue_' = [continue_ EXCEPT ![w] = ~pill]
              /\ wstate' = [wstate EXCEPT ![w] = IF pill THEN "dead" ELSE "dispatching"]
              /\ trace' = IF trace.on THEN [trace EXCEPT !.taken = Append(@, entries)]
                           ELSE trace
    /\ calls' = <<>>
    /\ WorkerFrame

\* one collection cycle: at least one and at most MAX_BATCH_SIZE entries
worker_get(w) ==
    /\ wstate[w] = "waiting"
    /\ queue # <<>>
    /\ \E n \in 1..min(MAX_BATCH_SIZE, Len(queue)) :
          LET entries == SubSeq(queue, 1, n) IN
          /\ queue' = SubSeq(queue, n + 1, Len(queue))
          /\ batch' = [batch EXCEPT ![w] = BeforeStop(entries)]
          /\ continue_' = [continue_ EXCEPT ![w] = BeforeStop(entries) = entries]
          /\ trace' = IF trace.on THEN [trace EXCEPT !.taken = Append(@, entries)]
                       ELSE trace
    /\ wstate' = [wstate EXCEPT ![w] = "dispatching"]
    /\ calls' = <<>>
    /\ WorkerFrame

\* the callback on the collected batch; the loop ends after a poison pill
worker_dispatch(w) ==
    /\ wstate[w] = "dispatching"
    /\ calls' = dispatch_callback(batch[w])
    /\ trace' = IF trace.on
                 THEN [trace EXCEPT !.batches = Append(@, batch[w]),
                                    !.log = @ \o dispatch_callback(batch[w])]
                 ELSE trace
    /\ batch' = [batch EXCEPT ![w] = <<>>]
    /\ wstate' = [wstate EXCEPT ![w] = IF continue_[w] THEN "waiting" ELSE "dead"]
    /\ UNCHANGED <<queue, continue_>>
    /\ WorkerFrame

(***************************************************************************)
(* The dispatcher with its worker, callers of start() and stop(), and the  *)
(* handle of one delivered message producing requests.                     *)
(***************************************************************************)
\* the message delivered before the run starts
Delivered == CHOOSE h \in Handles : h.ack_id = "a"

Init ==
    /\ Constructed
    /\ input = <<>>
    /\ trace = NoTrace

Next ==
    \/ \E t \in Callers : start_acquire(t)
    \/ \E t \in Callers : start_check(t)
    \/ \E t \in Callers : start_assign(t)
    \/ \E t \in Callers : stop_acquire(t)
    \/ \E t \in Callers : stop_signal(t)
    \/ \E t \in Callers : stop_join(t)
    \/ \E w \in WorkerIds : worker_get(w)
    \/ \E w \in WorkerIds : worker_dispatch(w)
    \/ Message_init(Delivered)
    \/ Len(queue) < MaxPending /\ Message_ack(Delivered)
    \/ Len(queue) < MaxPending /\ Message_nack(Delivered)
    \/ Len(queue) < MaxPending /\ Message_drop(Delivered)
    \/ \E s \in SecondsArgs :
          Len(queue) < MaxPending /\ Message_modify_ack_deadline(Delivered, s)

Spec == Init /\ [][Next]_vars

\* the scheduler runs a runnable worker and lets a joined stop() return
SpecFair ==
    /\ Spec
    /\ \A w \in WorkerIds : WF_vars(worker_get(w)) /\ WF_vars(worker_dispatch(w))
    /\ \A t \in Callers : WF_vars(stop_join(t))

(***************************************************************************)
(* Properties of start() and stop() (Spec, SpecFair).                      *)
(***************************************************************************)
AliveWorkers == { w \in WorkerIds : Alive(w) }
PillsQueued == Len(SelectSeq(queue, LAMBDA e : e = STOP))

\* C5: start() finding the dispatcher running raises ValueError in the caller
\* and changes nothing: no worker is created, the running worker stays bound
\* to the dispatcher and alive, the queue and the worker's batch are untouched.
C5_StartWhileRunning ==
    [][ \A t \in Callers :
          (pc[t] = "start_locked" /\ thread # NoThread /\ pc'[t] # pc[t]) =>
              /\ pc'[t] = "idle"
              /\ "ValueError" \in outcome'[t]
              /\ "started" \in outcome'[t] <=> "started" \in outcome[t]
              /\ lock' = NoOwner
              /\ UNCHANGED <<queue, thread, spawned, wstate, batch, continue_, calls>> ]_vars

\* C5 witness: a start() has raised while the worker of an earlier start() is
\* bound to the dispatcher and alive.
C5_Witness ==
    \E t \in Callers :
        /\ "ValueError" \in outcome[t]
        /\ pc[t] = "idle"
        /\ thread # NoThread
        /\ Alive(thread)
        /\ Cardinality({ w \in WorkerIds : wstate[w] # "unborn" }) = 1

\* C6: stop() finding the dispatcher idle returns normally and is a no-op: it
\* puts no poison pill, leaves the queue as it is and the dispatcher idle, and
\* starts or ends no worker - so repeated stop() calls change nothing either.
C6_StopWhileIdle ==
    [][ \A t \in Callers :
          /\ (pc[t] = "idle" /\ pc'[t] = "stop_locked") =>
                 UNCHANGED <<queue, thread, spawned, outcome, wstate, batch,
                             continue_, calls>>
          /\ (pc[t] = "stop_locked" /\ thread = NoThread /\ pc'[t] # pc[t]) =>
                 /\ pc'[t] = "idle"
                 /\ lock' = NoOwner
                 /\ thread' = NoThread
                 /\ UNCHANGED <<queue, spawned, outcome, wstate, batch,
                                 continue_, calls>> ]_vars

\* C6 witness: a stop() is under way on a dispatcher that an earlier stop()
\* already made idle, and the queue holds no poison pill.
C6_Witness ==
    \E t \in Callers :
        /\ pc[t] = "stop_locked"
        /\ thread = NoThread
        /\ \E w \in WorkerIds : wstate[w] = "dead"
        /\ PillsQueued = 0

\* C7: stop() finding the dispatcher running puts exactly one poison pill and
\* returns only once the worker has terminated, leaving the dispatcher idle;
\* while the dispatcher is idle and no start() has created a worker, no worker
\* is alive, so no dispatch_callback runs or starts; a start() that then finds
\* the dispatcher idle creates a worker; and a stop() that joins eventually
\* returns.
C7_StopWhileRunning ==
    /\ [][ \A t \in Callers :
             /\ (pc[t] = "stop_locked" /\ thread # NoThread /\ pc'[t] # pc[t]) =>
                    /\ queue' = Append(queue, STOP)
                    /\ pc'[t] = "stop_join"
                    /\ lock' = t
                    /\ UNCHANGED <<thread, wstate>>
             /\ (pc[t] = "stop_join" /\ pc'[t] # pc[t]) =>
                    /\ ~Alive(thread)
                    /\ pc'[t] = "idle"
                    /\ thread' = NoThread
                    /\ lock' = NoOwner
                    /\ AliveWorkers = {}
                    /\ UNCHANGED <<queue, wstate>>
             /\ (pc[t] = "start_locked" /\ thread = NoThread /\ pc'[t] # pc[t]) =>
                    /\ pc'[t] = "start_spawned"
                    /\ \E w \in WorkerIds : wstate[w] = "unborn" /\ wstate'[w] = "waiting" ]_vars
    /\ []( (thread = NoThread /\ \A t \in Callers : pc[t] # "start_spawned") =>
               /\ AliveWorkers = {}
               /\ \A w \in WorkerIds : wstate[w] # "dispatching" )
    /\ [](PillsQueued <= 1)
    /\ \A t \in Callers : (pc[t] = "stop_join") ~> (pc[t] = "idle")

\* C7 witness: the first worker is dead after a stop() that joined it, and a
\* later start() has bound a second, running worker to the dispatcher.
C7_Witness ==
    /\ wstate[1] = "dead"
    /\ thread = 2
    /\ Alive(2)
    /\ \A t \in Callers : pc[t] = "idle"

\* C8: whatever the interleaving of start() and stop() calls, at most one
\* worker is alive, so at most one runs dispatch_callback; and of the start()
\* calls completed since the dispatcher was last idle exactly one caller's
\* created a worker while every other caller's raised ValueError.
C8_SingleWorker ==
    /\ Cardinality(AliveWorkers) <= 1
    /\ Cardinality({ w \in WorkerIds : wstate[w] = "dispatching" }) <= 1
    /\ Cardinality({ t \in Callers : "started" \in outcome[t] }) <= 1
    /\ (\E t \in Callers : outcome[t] # {}) =>
           \E t \in Callers :
              /\ "started" \in outcome[t]
              /\ \A u \in Callers \ {t} : outcome[u] \subseteq {"ValueError"}

\* C8 witness: both callers have completed a start() since the dispatcher was
\* idle; one created the worker, which is dispatching, and the other raised.
C8_Witness ==
    \E t, u \in Callers :
        /\ t # u
        /\ outcome[t] = {"started"}
        /\ outcome[u] = {"ValueError"}
        /\ wstate[thread] = "dispatching"

(***************************************************************************)
(* The message handles alone: messages are delivered, the clock moves and  *)
(* the application calls the handles' operations.                          *)
(***************************************************************************)
\* what a clock step leaves alone
ClockFrame ==
    UNCHANGED <<queue, thread, lock, pc, spawned, outcome, wstate, batch,
                continue_, calls, input, ran, received, trace>>

\* time.time() read later: the wall clock has advanced
time_advance == now < MaxTime /\ now' = now + 1 /\ ClockFrame

\* time.time() read after the wall clock was set back
time_set_back == now > 0 /\ now' = now - 1 /\ ClockFrame

InitMessage ==
    /\ Constructed
    /\ input = <<>>
    /\ trace = NoTrace

NextMessage ==
    \/ time_advance
    \/ time_set_back
    \/ \E h \in Handles : Message_init(h)
    \/ \E h \in Handles : Len(queue) < MaxQueue /\ Message_ack(h)
    \/ \E h \in Handles : Len(queue) < MaxQueue /\ Message_nack(h)
    \/ \E h \in Handles : Len(queue) < MaxQueue /\ Message_drop(h)
    \/ \E h \in Handles, s \in SecondsArgs :
          Len(queue) < MaxQueue /\ Message_modify_ack_deadline(h, s)

SpecMessage == InitMessage /\ [][NextMessage]_vars

(***************************************************************************)
(* Properties of the message handle (SpecMessage).                         *)
(***************************************************************************)
\* C9: each call of ack, nack, modify_ack_deadline or drop on a handle appends
\* exactly one item of the matching kind with the handle's ack_id (and size and
\* ordering key where the kind has them) to the queue, and touches nothing
\* else: no collaborator call, no worker, no dispatcher state; and every one
\* of the four operations can be called on a handle whatever was called on it
\* before.
C9_HandleOnlyEnqueues ==
    /\ [][ \A h \in Handles :
             /\ Message_ack(h) =>
                    /\ Len(queue') = Len(queue) + 1
                    /\ SubSeq(queue', 1, Len(queue)) = queue
                    /\ queue'[Len(queue')].kind = "AckRequest"
                    /\ queue'[Len(queue')].ack_id = h.ack_id
                    /\ queue'[Len(queue')].byte_size = h.size
                    /\ queue'[Len(queue')].ordering_key = h.ordering_key
             /\ Message_nack(h) =>
                    queue' = queue \o <<[kind |-> "NackRequest", ack_id |-> h.ack_id,
                                         byte_size |-> h.size,
                                         ordering_key |-> h.ordering_key]>>
             /\ Message_drop(h) =>
                    queue' = queue \o <<[kind |-> "DropRequest", ack_id |-> h.ack_id,
                                         byte_size |-> h.size,
                                         ordering_key |-> h.ordering_key]>>
             /\ \A s \in SecondsArgs :
                    Message_modify_ack_deadline(h, s) =>
                        queue' = queue \o <<[kind |-> "ModAckRequest",
                                             ack_id |-> h.ack_id, seconds |-> s]>>
             /\ ( \/ Message_ack(h) \/ Message_nack(h) \/ Message_drop(h)
                  \/ \E s \in SecondsArgs : Message_modify_ack_deadline(h, s) ) =>
                    UNCHANGED <<calls, thread, lock, wstate, batch, continue_,
                                received, now>> ]_vars
    /\ [] \A h \in Handles :
             received[h] # None =>
                 /\ ENABLED Message_ack(h)
                 /\ ENABLED Message_nack(h)
                 /\ ENABLED Message_drop(h)
                 /\ \A s \in SecondsArgs : ENABLED Message_modify_ack_deadline(h, s)

\* C9 witness: the queue holds an ack of message "a" followed by a nack of the
\* same message, and no collaborator was called.
C9_Witness ==
    /\ Len(queue) = 2
    /\ queue[1].kind = "AckRequest" /\ queue[1].ack_id = "a"
    /\ queue[2] = NackRequest("a", 10, "")
    /\ calls = <<>>

\* C10: ack() called at T1 on a handle created at T0 enqueues an AckRequest
\* whose time_to_ack is the least whole number of seconds not below T1 - T0;
\* it is 1 whenever 0 < T1 - T0 < 1 second.
C10_TimeToAckRoundsUp ==
    [][ \A h \in Handles :
          Message_ack(h) =>
              LET item == queue'[Len(queue')]
                  elapsed == now - received[h][1]
              IN  /\ item.kind = "AckRequest"
                  /\ item.time_to_ack # None
                  /\ item.time_to_ack[1] * TicksPerSecond >= elapsed
                  /\ (item.time_to_ack[1] - 1) * TicksPerSecond < elapsed
                  /\ (0 < elapsed /\ elapsed < TicksPerSecond) =>
                         item.time_to_ack[1] = 1 ]_vars

\* C10 witness: a message acked one tick (less than a second) after it was
\* received has an AckRequest with time_to_ack 1 at the end of the queue.
C10_Witness ==
    \E h \in Handles :
        /\ received[h] # None
        /\ now - received[h][1] = 1
        /\ queue # <<>>
        /\ queue[Len(queue)] = AckRequest(h.ack_id, h.size, Some(1), h.ordering_key)

(***************************************************************************)
(* Properties of the batch handlers (SpecDispatch).                        *)
(***************************************************************************)
HandlerNames ==
    <<"Dispatcher.lease", "Dispatcher.modify_ack_deadline", "Dispatcher.ack",
      "Dispatcher.nack", "Dispatcher.drop">>
HandlerKinds ==
    <<"LeaseRequest", "ModAckRequest", "AckRequest", "NackRequest", "DropRequest">>

IsHandlerEntry(c) == \E k \in 1..Len(HandlerNames) : c.op = HandlerNames[k]
IsSend(c) == c.op \in {"send.ack", "send.modack"}
Rank(op) == CHOOSE k \in 1..Len(HandlerNames) : HandlerNames[k] = op

\* the ack_ids a leaser call is about
AckIdsOf(c) == { c.items[i].ack_id : i \in 1..Len(c.items) }

\* s[1] \o s[2] \o ... for a sequence of sequences
RECURSIVE Flatten(_)
Flatten(s) == IF s = <<>> THEN <<>> ELSE Head(s) \o Flatten(Tail(s))

\* C1: whatever the order of a batch, dispatch_callback enters its handlers in
\* the order lease, modify-ack-deadline, ack, nack, drop, each one exactly when
\* the batch holds an item of its kind and with exactly those items; and
\* leaser.add for an ack_id always comes before any leaser.remove for it.
C1_HandlerOrder ==
    ran = "dispatch_callback" =>
        LET entries == SelectSeq(calls, IsHandlerEntry) IN
        /\ \A i, j \in 1..Len(entries) :
               i < j => Rank(entries[i].op) < Rank(entries[j].op)
        /\ \A k \in 1..Len(HandlerNames) :
               LET of_kind == SelectSeq(input, LAMBDA it : it.kind = HandlerKinds[k])
                   mine == SelectSeq(entries, LAMBDA e : e.op = HandlerNames[k])
               IN  IF of_kind = <<>> THEN mine = <<>>
                   ELSE Len(mine) = 1 /\ mine[1].items = of_kind
        /\ \A i, j \in 1..Len(calls) :
               ( /\ calls[i].op = "leaser.add"
                 /\ calls[j].op = "leaser.remove"
                 /\ AckIdsOf(calls[i]) \cap AckIdsOf(calls[j]) # {} ) => i < j

\* C1 witness: a batch whose ack, nack and drop of "a" all precede the lease
\* of "a" was dispatched, and the leaser saw the add first.
C1_Witness ==
    /\ ran = "dispatch_callback"
    /\ Len(input) = 3
    /\ input[1].kind \in {"AckRequest", "NackRequest", "DropRequest"}
    /\ input[1].ack_id = "a"
    /\ input[3] = LeaseRequest("a", 10, "")
    /\ \E i, j \in 1..Len(calls) :
          /\ i < j
          /\ calls[i].op = "leaser.add" /\ "a" \in AckIdsOf(calls[i])
          /\ calls[j].op = "leaser.remove" /\ "a" \in AckIdsOf(calls[j])

\* C2: ack and modify_ack_deadline on N items send exactly ceil(N / cap)
\* requests; every request carries at most cap ids and every request but the
\* last exactly cap; N = 0 sends nothing.
C2_ChunkCount ==
    ran \in {"ack", "modify_ack_deadline"} =>
        LET sends == SelectSeq(calls, IsSend)
            N == Len(input)
            C == ACK_IDS_BATCH_SIZE
        IN  /\ Len(sends) * C >= N
            /\ (Len(sends) - 1) * C < N
            /\ N = 0 => sends = <<>>
            /\ \A i \in 1..Len(sends) :
                   /\ Len(sends[i].ack_ids) <= C
                   /\ i < Len(sends) => Len(sends[i].ack_ids) = C

\* C2 witness: 2 * cap + 1 acks went out as three requests of cap, cap and 1 ids.
C2_Witness ==
    /\ ran = "ack"
    /\ Len(input) = 2 * ACK_IDS_BATCH_SIZE + 1
    /\ LET sends == SelectSeq(calls, IsSend) IN
          /\ Len(sends) = 3
          /\ Len(sends[1].ack_ids) = ACK_IDS_BATCH_SIZE
          /\ Len(sends[2].ack_ids) = ACK_IDS_BATCH_SIZE
          /\ Len(sends[3].ack_ids) = 1

\* C3: the chunks sent by ack and modify_ack_deadline, concatenated in send
\* order, are the ack_ids of the input in input order; a modack request
\* carries as many seconds as ack_ids, and its seconds concatenate to the
\* seconds of the input, so seconds and ack_ids stay paired by position.
C3_ChunkContents ==
    ran \in {"ack", "modify_ack_deadline"} =>
        LET sends == SelectSeq(calls, IsSend) IN
        /\ Flatten([i \in 1..Len(sends) |-> sends[i].ack_ids])
               = [i \in 1..Len(input) |-> input[i].ack_id]
        /\ ran = "ack" =>
               \A i \in 1..Len(sends) : sends[i].op = "send.ack" /\ sends[i].seconds = <<>>
        /\ ran = "modify_ack_deadline" =>
               /\ \A i \in 1..Len(sends) :
                      /\ sends[i].op = "send.modack"
                      /\ Len(sends[i].seconds) = Len(sends[i].ack_ids)
               /\ Flatten([i \in 1..Len(sends) |-> sends[i].seconds])
                      = [i \in 1..Len(input) |-> input[i].seconds]

\* C3 witness: a modack list longer than one request, with two deadlines and
\* two ack_ids in it, was split over several requests.
C3_Witness ==
    /\ ran = "modify_ack_deadline"
    /\ Len(input) > ACK_IDS_BATCH_SIZE
    /\ \E i, j \in 1..Len(input) :
          input[i].seconds # input[j].seconds /\ input[i].ack_id # input[j].ack_id
    /\ Len(SelectSeq(calls, IsSend)) >= 2

\* a collaborator call with its items reduced to (ack_id, byte_size, ordering_key)
Downstream(c) ==
    [op |-> c.op,
     items |-> [i \in 1..Len(c.items) |->
                  <<c.items[i].ack_id, c.items[i].byte_size, c.items[i].ordering_key>>],
     ack_ids |-> c.ack_ids, seconds |-> c.seconds, keys |-> c.keys]

\* C4: nack(items) makes the calls of modify_ack_deadline([ModAckRequest(ack_id,
\* 0) ...]) followed by those of drop(items), with the same ack_id, byte_size
\* and ordering_key; every deadline sent is 0 and every send precedes the
\* leaser.remove.
C4_NackIsModAckThenDrop ==
    ran = "nack" =>
        LET expected ==
                modify_ack_deadline(
                    [i \in 1..Len(input) |-> ModAckRequest(input[i].ack_id, 0)])
                \o drop(input)
        IN  /\ [i \in 1..Len(calls) |-> Downstream(calls[i])]
                   = [i \in 1..Len(expected) |-> Downstream(expected[i])]
            /\ \A i \in 1..Len(calls) :
                   IsSend(calls[i]) =>
                       /\ \A k \in 1..Len(calls[i].seconds) : calls[i].seconds[k] = 0
                       /\ \A j \in 1..Len(calls) :
                              calls[j].op = "leaser.remove" => i < j
            /\ \A k \in 1..Len(input) :
                   \E i, j \in 1..Len(calls) :
                      /\ i < j
                      /\ calls[i].op = "send.modack"
                      /\ \E n \in 1..Len(calls[i].ack_ids) :
                             calls[i].ack_ids[n] = input[k].ack_id
                      /\ calls[j].op = "leaser.remove"
                      /\ input[k].ack_id \in AckIdsOf(calls[j])

\* C4 witness: nacks of both messages, more than one request long, were sent
\* with deadline 0 and then removed, the ordering key "k" reactivated.
C4_Witness ==
    /\ ran = "nack"
    /\ Len(input) > ACK_IDS_BATCH_SIZE
    /\ { input[i].ack_id : i \in 1..Len(input) } = {"a", "b"}
    /\ \E i, j, k \in 1..Len(calls) :
          /\ i < j /\ j < k
          /\ calls[i].op = "send.modack"
          /\ calls[j].op = "leaser.remove" /\ Len(calls[j].items) = Len(input)
          /\ calls[k].op = "activate_ordering_keys" /\ calls[k].keys # <<>>

(***************************************************************************)
(* Properties of dispatch_callback on batches with unknown or absent kinds *)
(* and of the handlers ack, drop and lease.                                *)
(***************************************************************************)
IsWarning(c) == c.op = "warnings.warn"

\* the calls made on the leaser, the histogram and the manager
IsCollaboratorCall(c) == ~IsHandlerEntry(c) /\ ~IsWarning(c)

\* a batch with its items of no known type taken out
Recognized(items) == SelectSeq(items, LAMBDA item : item.kind \in RequestKinds)

\* C11: dispatch_callback completes on every batch; an item of no known type
\* gets one warning and nothing else: apart from the warnings the calls are
\* those of the batch without its unknown items, and no call carries an
\* unknown item.
C11_UnknownItemSkipped ==
    /\ ran = "none" => ENABLED CallDispatchCallback
    /\ ran = "dispatch_callback" =>
           /\ Len(SelectSeq(calls, IsWarning)) = Len(input) - Len(Recognized(input))
           /\ SelectSeq(calls, LAMBDA c : ~IsWarning(c))
                  = dispatch_callback(Recognized(input))
           /\ \A i \in 1..Len(calls) : \A k \in 1..Len(calls[i].items) :
                  calls[i].items[k].kind \in RequestKinds

\* C11 witness: an unknown item stood between a lease and a drop; it was
\* warned about once, and the lease and the drop were both carried out.
C11_Witness ==
    /\ ran = "dispatch_callback"
    /\ Len(input) = 3
    /\ input[1].kind = "LeaseRequest"
    /\ input[2] = UnknownItem
    /\ input[3].kind = "DropRequest"
    /\ Len(SelectSeq(calls, IsWarning)) = 1
    /\ \E i, j \in 1..Len(calls) :
          /\ calls[i] = LeaserAdd(<<input[1]>>)
          /\ calls[j] = LeaserRemove(<<input[3]>>)

\* C13: ack(items) first adds to the histogram the time_to_ack of every item
\* that has one, in item order and of no other item, then sends all its
\* requests, then makes the three calls of drop: leaser.remove with the
\* items, the reactivation of ordering keys, the resume check.  A batch of a
\* lease of "a" and an ack of "a" with time_to_ack 3 gives leaser.add, one
\* histogram.add(3), one send carrying "a", leaser.remove and a resume check.
C13_AckOrder ==
    /\ ran = "ack" =>
           LET timed == SelectSeq(input, LAMBDA item : item.time_to_ack # None)
               h == Len(timed)
               n == Len(calls)
           IN  /\ n = h + Len(SelectSeq(calls, IsSend)) + 3
               /\ \A i \in 1..h : calls[i] = HistogramAdd(timed[i].time_to_ack[1])
               /\ \A i \in (h + 1)..(n - 3) : IsSend(calls[i])
               /\ calls[n - 2] = LeaserRemove(input)
               /\ calls[n - 1].op = "activate_ordering_keys"
               /\ calls[n] = MaybeResumeConsumer
    /\ ( /\ ran = "dispatch_callback"
         /\ input = <<LeaseRequest("a", 10, ""), AckRequest("a", 10, Some(3), "")>> ) =>
           LET made == SelectSeq(calls, IsCollaboratorCall) IN
           \E i1, i2, i3, i4, i5 \in 1..Len(made) :
              /\ i1 < i2 /\ i2 < i3 /\ i3 < i4 /\ i4 < i5
              /\ made[i1] = LeaserAdd(<<input[1]>>)
              /\ made[i2] = HistogramAdd(3)
              /\ made[i3] = SendAck(<<"a">>)
              /\ made[i4] = LeaserRemove(<<input[2]>>)
              /\ made[i5] = MaybeResumeConsumer
              /\ Len(SelectSeq(made, LAMBDA c : c.op = "ack_histogram.add")) = 1
              /\ Len(SelectSeq(made, IsSend)) = 1

\* C13 witness: ack ran on three items of which the first and the last had a
\* time_to_ack; two histogram adds, two requests and the drop calls followed.
C13_Witness ==
    /\ ran = "ack"
    /\ Len(input) = 3
    /\ input[1].time_to_ack # None
    /\ input[2].time_to_ack = None
    /\ input[3].time_to_ack # None
    /\ Len(calls) = 7
    /\ calls[2].op = "ack_histogram.add"
    /\ calls[4].op = "send.ack"
    /\ calls[5].op = "leaser.remove"

\* the batch of a lease and an ack of "a" was dispatched
C13_ExampleDispatched ==
    /\ ran = "dispatch_callback"
    /\ input = <<LeaseRequest("a", 10, ""), AckRequest("a", 10, Some(3), "")>>
    /\ Len(calls) = 9

\* C14: drop(items) makes exactly three calls in this order: leaser.remove
\* with all the items, activate_ordering_keys with the ordering keys of the
\* items that have a non-empty one, in item order and one per such item (a
\* key shared by several items is passed once for each, the empty key
\* never), then maybe_resume_consumer.
C14_DropCalls ==
    ran = "drop" =>
        LET keyed == SelectSeq(input, LAMBDA item : item.ordering_key # "") IN
        /\ Len(calls) = 3
        /\ calls[1] = LeaserRemove(input)
        /\ calls[2].op = "activate_ordering_keys"
        /\ calls[2].keys = [i \in 1..Len(keyed) |-> keyed[i].ordering_key]
        /\ \A i \in 1..Len(calls[2].keys) : calls[2].keys[i] # ""
        /\ calls[3] = MaybeResumeConsumer

\* C14 witness: two of the three dropped items carried the key "k", the
\* other none; the key was passed twice.
C14_Witness ==
    /\ ran = "drop"
    /\ Len(input) = 3
    /\ input[1].ordering_key = "k"
    /\ input[2].ordering_key = ""
    /\ input[3].ordering_key = "k"
    /\ calls[1] = LeaserRemove(input)
    /\ calls[2] = ActivateOrderingKeys(<<"k", "k">>)
    /\ calls[3] = MaybeResumeConsumer

\* C14 as stated: drop(items) calls leaser.remove with all the items, then
\* activate_ordering_keys with the set of distinct non-empty ordering keys of
\* the items (each such key once, the empty key never), then
\* maybe_resume_consumer.
C14_DistinctKeys ==
    ran = "drop" =>
        /\ Len(calls) = 3
        /\ calls[1] = LeaserRemove(input)
        /\ calls[2].op = "activate_ordering_keys"
        /\ { calls[2].keys[i] : i \in 1..Len(calls[2].keys) }
               = { input[i].ordering_key : i \in 1..Len(input) } \ {""}
        /\ \A i, j \in 1..Len(calls[2].keys) :
               calls[2].keys[i] = calls[2].keys[j] => i = j
        /\ calls[3] = MaybeResumeConsumer

\* C15: lease(items) hands all its items to leaser.add in one call and only
\* then calls maybe_pause_consumer; it sends nothing and removes nothing.
\* The same holds of the lease bucket of a dispatched batch.
C15_LeaseCalls ==
    /\ ran = "lease" =>
           /\ calls = <<LeaserAdd(input), MaybePauseConsumer>>
           /\ \A i \in 1..Len(calls) :
                  ~IsSend(calls[i]) /\ calls[i].op # "leaser.remove"
    /\ ran = "dispatch_callback" =>
           \A i \in 1..Len(calls) :
              calls[i].op = "Dispatcher.lease" =>
                 /\ calls[i].items = Bucket(input, "LeaseRequest")
                 /\ calls[i + 1] = LeaserAdd(calls[i].items)
                 /\ calls[i + 2] = MaybePauseConsumer
                 /\ \A j \in 1..Len(calls) :
                        calls[j].op \in {"leaser.add", "maybe_pause_consumer"}
                            => j \in {i + 1, i + 2}

\* C15 witness: lease ran on the leases of both messages; one add carrying
\* both was followed by the pause check.
C15_Witness ==
    /\ ran = "lease"
    /\ Len(input) = 2
    /\ input[1].ack_id = "a"
    /\ input[2].ack_id = "b"
    /\ calls[1].op = "leaser.add"
    /\ calls[1].items = input
    /\ calls[2].op = "maybe_pause_consumer"

\* C20: dispatch_callback calls no collaborator for a kind the batch lacks:
\* without an ack, nack or drop item there is no leaser.remove, no
\* activate_ordering_keys and no maybe_resume_consumer; without a lease item
\* no leaser.add and no maybe_pause_consumer; without an ack, nack or modack
\* item no send; on the empty batch no collaborator call at all.
C20_NoCallForAbsentKind ==
    ran = "dispatch_callback" =>
        LET made == SelectSeq(calls, IsCollaboratorCall)
            ops == { made[i].op : i \in 1..Len(made) }
            kinds == { input[i].kind : i \in 1..Len(input) }
        IN  /\ kinds \cap {"AckRequest", "NackRequest", "DropRequest"} = {} =>
                   ops \cap {"leaser.remove", "activate_ordering_keys",
                             "maybe_resume_consumer"} = {}
            /\ "LeaseRequest" \notin kinds =>
                   ops \cap {"leaser.add", "maybe_pause_consumer"} = {}
            /\ kinds \cap {"AckRequest", "NackRequest", "ModAckRequest"} = {} =>
                   ops \cap {"send.ack", "send.modack"} = {}
            /\ input = <<>> => calls = <<>>

\* C20 witness: a batch of modacks only was dispatched; requests went out
\* and nothing else was called.
C20_Witness ==
    /\ ran = "dispatch_callback"
    /\ input # <<>>
    /\ AllOfKind(input, "ModAckRequest")
    /\ LET made == SelectSeq(calls, IsCollaboratorCall) IN
          /\ made # <<>>
          /\ \A i \in 1..Len(made) : made[i].op = "send.modack"

\* the empty batch was dispatched
C20_EmptyBatchDispatched == ran = "dispatch_callback" /\ input = <<>>

(***************************************************************************)
(* The pipeline end to end: the manager and the handles of both messages   *)
(* put requests, one caller starts and stops the dispatcher, the worker    *)
(* dispatches; the history of the run is recorded in trace.                *)
(***************************************************************************)
\* requests put in one run
MaxProduced == 2

\* the thread that calls start() and stop()
Owner == "t1"

\* the manager putting the LeaseRequest of a newly delivered message
Manager_lease(h) ==
    /\ put(LeaseRequest(h.ack_id, h.size, h.ordering_key))
    /\ MessageFrame

\* a dispatcher just constructed; both messages are in the hands of the
\* application, their handles constructed at time 0
InitFlow ==
    /\ DispatcherConstructed
    /\ received = [h \in Handles |-> Some(0)]
    /\ input = <<>>
    /\ trace = EmptyTrace

\* the producers: both messages get leased and acked, the first one also
\* nacked, dropped and its deadline modified
Produce ==
    /\ Len(trace.enqueued) < MaxProduced
    /\ \/ \E h \in Handles : Manager_lease(h)
       \/ \E h \in Handles : Message_ack(h)
       \/ Message_nack(Delivered)
       \/ Message_drop(Delivered)
       \/ \E s \in SecondsArgs : Message_modify_ack_deadline(Delivered, s)

\* the dispatcher started and left running
NextRun ==
    \/ start_acquire(Owner)
    \/ start_check(Owner)
    \/ start_assign(Owner)
    \/ \E w \in WorkerIds : worker_get(w)
    \/ \E w \in WorkerIds : worker_dispatch(w)
    \/ Produce

\* the scheduler runs a runnable worker
SpecRunFair ==
    /\ InitFlow
    /\ [][NextRun]_vars
    /\ \A w \in WorkerIds : WF_vars(worker_get(w)) /\ WF_vars(worker_dispatch(w))

\* the dispatcher started, stopped and started again while requests arrive
NextFlow ==
    \/ NextRun
    \/ stop_acquire(Owner)
    \/ stop_signal(Owner)
    \/ stop_join(Owner)

SpecFlow == InitFlow /\ [][NextFlow]_vars

(***************************************************************************)
(* Collaborator failures.  dispatcher.py has no try statement: a call that *)
(* raises ends its handler and dispatch_callback on the spot.              *)
(***************************************************************************)
\* the calls the manager or the leaser may fail: send, leaser.add, leaser.remove
CanFail(c) == c.op \in {"send.ack", "send.modack", "leaser.add", "leaser.remove"}

\* the exception leaving dispatch_callback
Raised == Call("raise", <<>>, <<>>, <<>>, <<>>)

\* the failure caught and the handlers carried on with
raised_at_swallowed(made, k) == made

\* the calls dispatch_callback gets to make when its k-th call raises
raised_at(made, k) == SubSeq(made, 1, k)

\* the callback raising on the collected batch: the exception ends the worker
worker_dispatch_raises(w) ==
    /\ wstate[w] = "dispatching"
    /\ \E k \in 1..Len(dispatch_callback(batch[w])) :
          /\ CanFail(dispatch_callback(batch[w])[k])
          /\ calls' = raised_at(dispatch_callback(batch[w]), k) \o <<Raised>>
    /\ trace' = IF trace.on
                 THEN [trace EXCEPT !.batches = Append(@, batch[w]),
                                    !.log = Append(@, Raised)]
                 ELSE trace
    /\ batch' = [batch EXCEPT ![w] = <<>>]
    /\ wstate' = [wstate EXCEPT ![w] = "dead"]
    /\ UNCHANGED <<queue, continue_>>
    /\ WorkerFrame

\* the dispatcher started and left running, with collaborators that may fail
NextFail ==
    \/ NextRun
    \/ \E w \in WorkerIds : worker_dispatch_raises(w)

SpecFail == InitFlow /\ [][NextFail]_vars

(***************************************************************************)
(* Properties of a failing collaborator call (SpecFail).                   *)
(***************************************************************************)
\* the last callback raised
CallbackRaised == calls # <<>> /\ calls[Len(calls)] = Raised

\* C12: a failure of manager.send, leaser.add or leaser.remove is not caught
\* and not retried: the calls of that dispatch_callback are those of an
\* undisturbed run up to the failing call and stop there, so the rest of the
\* handler and the later buckets are not carried out (a failed send in ack
\* is followed by no leaser.remove); the worker is dead, and from then on
\* nothing is dequeued and no batch dispatched.
C12_FailurePropagates ==
    /\ [](CallbackRaised =>
            LET made == SubSeq(calls, 1, Len(calls) - 1)
                items == trace.batches[Len(trace.batches)]
            IN  /\ made # <<>>
                /\ CanFail(made[Len(made)])
                /\ made = SubSeq(dispatch_callback(items), 1, Len(made))
                /\ made[Len(made)].op = "send.ack" =>
                       \A i \in 1..Len(made) : made[i].op # "leaser.remove"
                /\ \A w \in WorkerIds : ~Alive(w))
    /\ [][ CallbackRaised =>
              /\ trace'.batches = trace.batches
              /\ trace'.taken = trace.taken
              /\ Len(queue') >= Len(queue)
              /\ calls' = calls ]_vars

\* C12 witness: the send of an ack failed in a batch that also held a drop;
\* nothing was removed from the leaser, the drop was never handled, the
\* worker is dead and the dispatcher still holds its thread.
C12_Witness ==
    /\ CallbackRaised
    /\ Len(calls) >= 2
    /\ calls[Len(calls) - 1].op = "send.ack"
    /\ LET items == trace.batches[Len(trace.batches)] IN
          /\ Len(items) = 2
          /\ items[1].kind = "AckRequest"
          /\ items[2].kind = "DropRequest"
    /\ \A i \in 1..Len(calls) :
          calls[i].op \notin {"leaser.remove", "Dispatcher.drop"}
    /\ thread # NoThread
    /\ wstate[thread] = "dead"

\* a request was put after the worker died; it stays in the queue
C12_LeftInQueue == CallbackRaised /\ queue # <<>>

(***************************************************************************)
(* Properties of the pipeline end to end (SpecFlow, SpecRunFair).          *)
(***************************************************************************)
\* the entries the workers took off the queue, the items passed to the callback
Collected == Flatten(trace.taken)
Dispatched == Flatten(trace.batches)

\* the entries of s that are requests, not poison pills
Requests(s) == SelectSeq(s, LAMBDA e : e # STOP)

\* the sends made by the handler called name: those between one of its
\* entries and the next handler entry
RECURSIVE SendsUnder(_, _, _)
SendsUnder(log, name, current) ==
    IF log = <<>> THEN <<>>
    ELSE LET c == Head(log) IN
         IF IsHandlerEntry(c) THEN SendsUnder(Tail(log), name, c.op)
         ELSE (IF current = name /\ IsSend(c) THEN <<c>> ELSE <<>>)
              \o SendsUnder(Tail(log), name, current)

\* a is b with some of its elements left out
RECURSIVE IsSubsequence(_, _)
IsSubsequence(a, b) ==
    IF a = <<>> THEN TRUE
    ELSE IF b = <<>> THEN FALSE
    ELSE IF Head(a) = Head(b) THEN IsSubsequence(Tail(a), Tail(b))
    ELSE IsSubsequence(a, Tail(b))

\* the ack_ids sent by ack, and the (ack_id, seconds) pairs sent by
\* modify_ack_deadline for ModAckRequest items, in the order they went out
AckStream ==
    LET sends == SendsUnder(trace.log, "Dispatcher.ack", "")
    IN  Flatten([i \in 1..Len(sends) |-> sends[i].ack_ids])
ModAckStream ==
    LET sends == SendsUnder(trace.log, "Dispatcher.modify_ack_deadline", "")
    IN  Flatten([i \in 1..Len(sends) |->
                   [k \in 1..Len(sends[i].ack_ids) |->
                      <<sends[i].ack_ids[k], sends[i].seconds[k]>>]])

\* C16: requests of one kind are handled in the order they were put.  The
\* workers take the requests off the queue in the order of the puts, and a
\* batch is what was collected ahead of a poison pill, in that order; the
\* items a handler is entered with, over all batches, are the dispatched
\* items of its kind in that order; so the ack_ids sent for acks, and the
\* deadlines sent for modacks, leave in the order their requests were put.
C16_KindOrder ==
    /\ Requests(Collected) = SubSeq(trace.enqueued, 1, Len(Requests(Collected)))
    /\ \A i \in 1..Len(trace.batches) : trace.batches[i] = BeforeStop(trace.taken[i])
    /\ \A k \in 1..Len(HandlerNames) :
          LET entries == SelectSeq(trace.log, LAMBDA c : c.op = HandlerNames[k])
          IN  Flatten([i \in 1..Len(entries) |-> entries[i].items])
                 = SelectSeq(Dispatched, LAMBDA item : item.kind = HandlerKinds[k])
    /\ LET acks == SelectSeq(trace.enqueued, LAMBDA item : item.kind = "AckRequest")
           done == SelectSeq(Dispatched, LAMBDA item : item.kind = "AckRequest")
           stream == AckStream
       IN  /\ stream = [i \in 1..Len(done) |-> done[i].ack_id]
           /\ IsSubsequence(stream, [i \in 1..Len(acks) |-> acks[i].ack_id])
    /\ LET modacks == SelectSeq(trace.enqueued, LAMBDA item : item.kind = "ModAckRequest")
           done == SelectSeq(Dispatched, LAMBDA item : item.kind = "ModAckRequest")
           stream == ModAckStream
       IN  /\ stream = [i \in 1..Len(done) |-> <<done[i].ack_id, done[i].seconds>>]
           /\ IsSubsequence(stream,
                            [i \in 1..Len(modacks) |->
                               <<modacks[i].ack_id, modacks[i].seconds>>])

\* C16 witness: the ack of "b" was put before the ack of "a" and dispatched
\* in the batch before it; the requests went out with "b" first.
C16_Witness ==
    /\ Len(trace.enqueued) = 2
    /\ trace.enqueued[1].kind = "AckRequest" /\ trace.enqueued[1].ack_id = "b"
    /\ trace.enqueued[2].kind = "AckRequest" /\ trace.enqueued[2].ack_id = "a"
    /\ trace.batches = << <<trace.enqueued[1]>>, <<trace.enqueued[2]>> >>
    /\ AckStream = <<"b", "a">>

\* two modacks of one batch were sent in the order they were put
C16_SameBatchDispatched ==
    /\ Len(trace.batches) = 1
    /\ Len(trace.batches[1]) = 2
    /\ ModAckStream = <<<<"a", 10>>, <<"a", 0>>>>

\* C17: whatever the producers do while stop() runs, a worker hands every
\* collection to dispatch_callback before it exits, cut off just ahead of
\* the poison pill: each batch is what its collection held ahead of the
\* pill, no batch holds the pill, a collection without its callback exists
\* only while its worker is about to make it, and a worker that exited has
\* nothing left in hand.  (Requests put behind the pill may stay
\* undispatched after stop() returned: C17_Witness.)
C17_StopRacingProducers ==
    /\ \A i \in 1..Len(trace.batches) :
          /\ trace.batches[i] = BeforeStop(trace.taken[i])
          /\ \A k \in 1..Len(trace.batches[i]) : trace.batches[i][k] # STOP
    /\ Len(trace.taken) - Len(trace.batches)
          = Cardinality({ w \in WorkerIds : wstate[w] = "dispatching" })
    /\ \A w \in WorkerIds :
          /\ wstate[w] = "dispatching" =>
                 batch[w] = BeforeStop(trace.taken[Len(trace.taken)])
          /\ wstate[w] # "dispatching" => batch[w] = <<>>
          /\ \A k \in 1..Len(batch[w]) : batch[w][k] # STOP

\* C17 witness: stop() has returned and the worker has exited; the request
\* put ahead of the pill was dispatched, the one put behind it was not.
C17_Witness ==
    /\ pc[Owner] = "idle"
    /\ thread = NoThread
    /\ lock = NoOwner
    /\ \E w \in WorkerIds : wstate[w] = "dead"
    /\ \A w \in WorkerIds : ~Alive(w)
    /\ Len(trace.enqueued) = 2
    /\ Dispatched = <<trace.enqueued[1]>>
    /\ \E i \in 1..Len(trace.taken) : BeforeStop(trace.taken[i]) # trace.taken[i]

\* the same, with the request behind the pill still in the queue
C17_LeftBehindInQueue == C17_Witness /\ queue # <<>>

\* the same, with the request behind the pill collected with it and dropped
C17_LeftBehindDiscarded == C17_Witness /\ queue = <<>>

\* every ack, nack and drop request was put after the lease of its ack_id
LeaseFirst ==
    \A i \in 1..Len(trace.enqueued) :
        trace.enqueued[i].kind \in {"AckRequest", "NackRequest", "DropRequest"} =>
            \E j \in 1..(i - 1) :
               /\ trace.enqueued[j].kind = "LeaseRequest"
               /\ trace.enqueued[j].ack_id = trace.enqueued[i].ack_id

\* leaser.remove was only ever called for ack_ids leaser.add had been called for
RemoveAfterAdd ==
    \A j \in 1..Len(trace.log) :
        trace.log[j].op = "leaser.remove" =>
            \A id \in AckIdsOf(trace.log[j]) :
               \E i \in 1..(j - 1) :
                  trace.log[i].op = "leaser.add" /\ id \in AckIdsOf(trace.log[i])

\* no lease request was collected behind a poison pill, and so discarded
NoLeaseDiscarded ==
    \A i \in 1..Len(trace.taken) :
        \A k \in (Len(BeforeStop(trace.taken[i])) + 1)..Len(trace.taken[i]) :
            trace.taken[i][k].kind # "LeaseRequest"

\* C18: over any batches and batch boundaries: if every ack, nack and drop
\* request was put after the lease request of its ack_id, and no lease
\* request was discarded behind the poison pill of a stop(), then
\* leaser.remove is never called for an ack_id before leaser.add was called
\* for it.
C18_RemoveOnlyAfterAdd == (LeaseFirst /\ NoLeaseDiscarded) => RemoveAfterAdd

\* C18 witness: the lease of "a" and the ack put after it went through two
\* batches; leaser.add was called, then leaser.remove.
C18_Witness ==
    /\ LeaseFirst
    /\ NoLeaseDiscarded
    /\ Len(trace.enqueued) = 2
    /\ trace.enqueued[2].kind = "AckRequest"
    /\ trace.batches = << <<trace.enqueued[1]>>, <<trace.enqueued[2]>> >>
    /\ \E i, j \in 1..Len(trace.log) :
          /\ i < j
          /\ trace.log[i] = LeaserAdd(<<trace.enqueued[1]>>)
          /\ trace.log[j] = LeaserRemove(<<trace.enqueued[2]>>)

\* C18 as stated: over any batches and batch boundaries: if every ack, nack
\* and drop request was put after the lease request of its ack_id, then
\* leaser.remove is never called for an ack_id before leaser.add was called
\* for it.
C18_LeaseFirstSuffices == LeaseFirst => RemoveAfterAdd

\* C19: while the dispatcher runs, no collaborator call fails and stop() is
\* not called, every request put on the queue is passed to dispatch_callback
\* exactly once: at all times the items dispatched so far are the first
\* requests put, each once and in the order of the puts, and once the
\* dispatcher runs the n-th request put is eventually dispatched.
C19_EveryItemDispatchedOnce ==
    /\ [](/\ Len(Dispatched) <= Len(trace.enqueued)
          /\ \A i \in 1..Len(Dispatched) : Dispatched[i] = trace.enqueued[i])
    /\ \A n \in 1..MaxProduced :
          (thread # NoThread /\ Len(trace.enqueued) >= n) ~> (Len(Dispatched) >= n)

\* C19 witness: the dispatcher runs, two requests were put and went through
\* two batches; the queue is empty and each request was dispatched once.
C19_Witness ==
    /\ thread # NoThread
    /\ Alive(thread)
    /\ Len(trace.enqueued) = 2
    /\ Len(trace.batches) = 2
    /\ Dispatched = trace.enqueued
    /\ queue = <<>>

(***************************************************************************)
(* A failing collaborator followed by stop() and a new start(): the        *)
(* requests come from the handle of the first message only.                *)
(***************************************************************************)
ProduceDelivered ==
    /\ Len(trace.enqueued) < MaxProduced
    /\ \/ Message_ack(Delivered)
       \/ Message_nack(Delivered)
       \/ Message_drop(Delivered)
       \/ \E s \in SecondsArgs : Message_modify_ack_deadline(Delivered, s)

NextRestart ==
    \/ start_acquire(Owner)
    \/ start_check(Owner)
    \/ start_assign(Owner)
    \/ stop_acquire(Owner)
    \/ stop_signal(Owner)
    \/ stop_join(Owner)
    \/ \E w \in WorkerIds : worker_get(w)
    \/ \E w \in WorkerIds : worker_dispatch(w)
    \/ \E w \in WorkerIds : worker_dispatch_raises(w)
    \/ ProduceDelivered

SpecRestart == InitFlow /\ [][NextRestart]_vars

(***************************************************************************)
(* Properties of the dispatcher after its worker died (SpecRestart).       *)
(***************************************************************************)
\* the worker ended with its loop flag still set: by a failure, not by a pill
DiedOfFailure(w) == wstate[w] = "dead" /\ continue_[w]

\* the dispatcher holds the thread of a worker that died of a failure
HoldsFailedWorker == thread # NoThread /\ DiedOfFailure(thread)

\* C21: once the worker died of a failure in dispatch_callback the dispatcher
\* still holds its thread: start() raises ValueError and changes nothing,
\* and only stop() makes the dispatcher idle.  That stop() puts the poison
\* pill, need not wait (the join can return at once) and clears the handle;
\* the pill is still in the queue then, and stays while no worker lives.
\* The worker of the next start() ends its loop when it collects the pill,
\* and a worker ending never clears the dispatcher's handle.
C21_DeadWorkerStillRunning ==
    /\ [][ (HoldsFailedWorker /\ pc[Owner] = "start_locked" /\ pc'[Owner] # pc[Owner]) =>
              /\ pc'[Owner] = "idle"
              /\ "ValueError" \in outcome'[Owner]
              /\ UNCHANGED <<thread, wstate, queue, spawned>> ]_vars
    /\ [][ (HoldsFailedWorker /\ thread' # thread) =>
              /\ pc[Owner] = "stop_join"
              /\ pc'[Owner] = "idle"
              /\ thread' = NoThread
              /\ lock' = NoOwner
              /\ queue' = queue
              /\ \E i \in 1..Len(queue) : queue[i] = STOP ]_vars
    /\ [][ (HoldsFailedWorker /\ pc[Owner] = "stop_locked" /\ pc'[Owner] # pc[Owner]) =>
              /\ pc'[Owner] = "stop_join"
              /\ queue' = Append(queue, STOP)
              /\ thread' = thread ]_vars
    /\ []((HoldsFailedWorker /\ pc[Owner] = "stop_join") => ENABLED stop_join(Owner))
    /\ [][ (\A w \in WorkerIds : ~Alive(w)) =>
              (Len(queue') >= Len(queue) /\ SubSeq(queue', 1, Len(queue)) = queue) ]_vars
    /\ [][ \A w \in WorkerIds :
              /\ ( /\ wstate[w] = "waiting"
                   /\ wstate'[w] = "dispatching"
                   /\ \E i \in 1..(Len(queue) - Len(queue')) : queue[i] = STOP ) =>
                     ~continue_'[w]
              /\ (wstate[w] = "dispatching" /\ ~continue_[w] /\ wstate'[w] # wstate[w]) =>
                     wstate'[w] = "dead"
              /\ (Alive(w) /\ wstate'[w] = "dead") => thread' = thread ]_vars

\* C21 witness: the first worker died of a failure; stop() put its pill and
\* returned; the worker of the next start() collected that pill and ended,
\* and the dispatcher still holds its thread although no worker lives.
C21_Witness ==
    /\ \E w \in WorkerIds : w # thread /\ DiedOfFailure(w)
    /\ thread # NoThread
    /\ wstate[thread] = "dead"
    /\ ~continue_[thread]
    /\ pc[Owner] = "idle"
    /\ "started" \in outcome[Owner]
    /\ Len(SelectSeq(Collected, LAMBDA e : e = STOP)) = 1
    /\ \A i \in 1..Len(queue) : queue[i] # STOP

\* stop() has returned after the worker's failure: the dispatcher is idle and
\* the pill is in the queue
C21_StalePill ==
    /\ thread = NoThread
    /\ pc[Owner] = "idle"
    /\ \E w \in WorkerIds : DiedOfFailure(w)
    /\ \A w \in WorkerIds : ~Alive(w)
    /\ \E i \in 1..Len(queue) : queue[i] = STOP

\* start() has raised while the dispatcher held the failed worker
C21_StartRejected ==
    /\ HoldsFailedWorker
    /\ pc[Owner] = "idle"
    /\ "ValueError" \in outcome[Owner]

====
